---- MODULE Spec2Model ----
(***************************************************************************)
(* Model of src/src/data.rs (the type-erased handle `Datum` and the        *)
(* capability trait `DataTrait` with its blanket implementation) and of    *)
(* the use made of it in src/examples/data.rs.                             *)
(*                                                                         *)
(* A payload is a record carrying its concrete type (`ty`, the TypeId of   *)
(* the value behind the `dyn DataTrait`) and its fields.  A Box is an      *)
(* address into `heap`.  A `Datum` is a variable (slot) holding one Box.   *)
(***************************************************************************)
EXTENDS Integers, Sequences, FiniteSets, TLC

VARIABLES
  heap,    \* address -> payload stored in that heap cell (NoVal when free)
  datum,   \* slot -> address of the Box the Datum in that slot owns (0: no Datum)
  built,   \* slot -> the value the Datum in that slot was built from (history)
  last     \* the last operation performed and what it returned

vars == <<heap, datum, built, last>>

----------------------------------------------------------------------------
(* Bounds and sample inputs *)

MaxHandles == 2

Slots == 1 .. MaxHandles
Addrs == 1 .. (MaxHandles + 1)   \* one cell more: the Box a downcast returns

U8Mod == 256                     \* `as u8` keeps the low 8 bits

NoVal == [ty |-> "none"]

Jo   == <<74, 111>>              \* "Jo"
John == <<74, 111, 104, 110>>    \* "John"

U8Vals     == {[ty |-> "u8", val |-> n] : n \in {1, 34}}
I8Vals     == {[ty |-> "i8", val |-> n] : n \in {-1, 1}}
PersonVals == {[ty |-> "Person", name |-> John, age |-> 1]}
Values     == U8Vals \cup I8Vals \cup PersonVals
TypeIds    == {"u8", "i8", "Person"}

(* Parsed syntax trees handed to the "person" reader callback. *)
PersonNode(s, n) ==
  [kind |-> "Vector",
   nodes |-> <<[kind |-> "Symbol", name |-> s], [kind |-> "Int", int |-> n]>>]
Nodes ==
  {PersonNode(Jo, 34), PersonNode(John, 290),
   [kind |-> "Vector", nodes |-> <<[kind |-> "Int", int |-> 34]>>]}

(* Hash accumulators supplied by the caller.  "bytes" implements only      *)
(* Hasher::write (as DefaultHasher does); "typed" also overrides the       *)
(* integer write methods (as FxHasher or NoHashHasher do).  The log is     *)
(* the sequence of method calls the accumulator has received.              *)
Call(m, b) == [m |-> m, b |-> b]
Accumulators ==
  {[kind |-> k, log |-> l] : k \in {"bytes", "typed"}, l \in {<<>>, <<Call("write", <<7>>)>>}}

None == <<>>
Some(x) == <<x>>

----------------------------------------------------------------------------
(* The concrete types' own capabilities (what the blanket impl forwards to) *)

int_cmp(a, b) == IF a < b THEN "Less" ELSE IF a = b THEN "Equal" ELSE "Greater"

RECURSIVE str_cmp(_, _)
str_cmp(s, t) ==
  IF s = <<>> /\ t = <<>> THEN "Equal"
  ELSE IF s = <<>> THEN "Less"
  ELSE IF t = <<>> THEN "Greater"
  ELSE IF Head(s) # Head(t) THEN int_cmp(Head(s), Head(t))
  ELSE str_cmp(Tail(s), Tail(t))

(* #[derive(Clone)] / Copy: a field-for-field copy *)
T_clone(v) == v

(* PartialEq::eq of two values of the same concrete type *)
T_eq(v, w) ==
  IF v.ty = "Person" THEN v.name = w.name /\ v.age = w.age
  ELSE v.val = w.val

(* Ord::cmp of two values of the same concrete type; derived on Person:    *)
(* fields in declaration order                                             *)
T_cmp(v, w) ==
  IF v.ty = "Person"
  THEN LET c == str_cmp(v.name, w.name)
       IN IF c # "Equal" THEN c ELSE int_cmp(v.age, w.age)
  ELSE int_cmp(v.val, w.val)

(* PartialOrd::partial_cmp of two values of the same concrete type *)
T_partial_cmp(v, w) ==
  IF v.ty = "Person"
  THEN LET c == Some(str_cmp(v.name, w.name))
       IN IF c # Some("Equal") THEN c ELSE Some(int_cmp(v.age, w.age))
  ELSE Some(int_cmp(v.val, w.val))

----------------------------------------------------------------------------
(* Hasher: the accumulator's methods, dispatched on the hasher's own type.  *)
(* An Adapter is [kind |-> "Adapter", state |-> the wrapped accumulator].   *)

Record(h, m, b) == [h EXCEPT !.log = Append(@, Call(m, b))]

(* Adapter::write forwards to the wrapped accumulator's write *)
AdapterDrop_write(h, bytes) == h
Adapter_write(h, bytes) == [h EXCEPT !.state = Record(h.state, "write", bytes)]

write(h, bytes) ==
  IF h.kind = "Adapter" THEN Adapter_write(h, bytes) ELSE Record(h, "write", bytes)

(* Adapter does not override write_u8: Hasher's default, self.write(&[i]) *)
write_u8(h, i) ==
  IF h.kind = "typed" THEN Record(h, "write_u8", <<i>>) ELSE write(h, <<i>>)

(* default: self.write_u8(i as u8) *)
write_i8(h, i) ==
  IF h.kind = "typed" THEN Record(h, "write_i8", <<i % U8Mod>>) ELSE write_u8(h, i % U8Mod)

(* default: self.write(s.as_bytes()); self.write_u8(0xff) *)
write_str(h, s) == write_u8(write(h, s), 255)

(* Hash::hash of a value of a concrete type into hasher h *)
T_hash(v, h) ==
  IF v.ty = "Person" THEN write_u8(write_str(h, v.name), v.age)
  ELSE IF v.ty = "i8" THEN write_i8(h, v.val)
  ELSE write_u8(h, v.val)

(* The bytes an accumulator has been fed, whatever method delivered them *)
RECURSIVE Bytes(_)
Bytes(log) == IF log = <<>> THEN <<>> ELSE Head(log).b \o Bytes(Tail(log))

----------------------------------------------------------------------------
(* DataTrait, blanket implementation.  `self` and `other` are payloads.    *)

(* <dyn Any>::downcast_ref::<T>() *)
downcast_ref(other, T) == IF other.ty = T THEN Some(other) ELSE None

(* Box::new: the lowest free cell *)
Alloc(h) == CHOOSE a \in Addrs : h[a] = NoVal /\ \A b \in Addrs : h[b] = NoVal => a <= b
Box_new(h, v) == [box |-> Alloc(h), heap |-> [h EXCEPT ![Alloc(h)] = v]]

cloneShared_(h, a) == [box |-> a, heap |-> h]
clone_(h, a) == Box_new(h, T_clone(h[a]))

eqNoneOr_(self, other) ==
  LET o == downcast_ref(other, self.ty) IN o = None \/ T_eq(self, o[1])
eq_(self, other) ==
  LET o == downcast_ref(other, self.ty) IN o # None /\ T_eq(self, o[1])

(* .expect("Expected same lhs & rhs erased-types") panics on None; the     *)
(* panic is the outcome "panic" in place of an Ordering                    *)
cmpSwapped_(self, other) ==
  LET o == downcast_ref(other, self.ty)
  IN IF o = None THEN "panic" ELSE T_cmp(o[1], self)
cmpByType_(self, other) ==
  LET o == downcast_ref(other, self.ty)
  IN IF o = None THEN "Less" ELSE T_cmp(self, o[1])
cmp_(self, other) ==
  LET o == downcast_ref(other, self.ty)
  IN IF o = None THEN "panic" ELSE T_cmp(self, o[1])

(* the trait's default method body, Some(self.cmp_(other)): a panic in     *)
(* cmp_ propagates and shows as <<"panic">>                                *)
partial_cmpDefault_(self, other) == Some(cmp_(self, other))
partial_cmp_(self, other) ==
  LET o == downcast_ref(other, self.ty)
  IN IF o = None THEN None ELSE T_partial_cmp(self, o[1])

hash_(self, state) == T_hash(self, [kind |-> "Adapter", state |-> state]).state

----------------------------------------------------------------------------
(* Datum.  `a` and `b` are the Boxes (addresses) two handles own.          *)

(* Any::type_id(&self.0): the argument is a &Box<dyn DataTrait>, so the    *)
(* call resolves to <Box<dyn DataTrait> as Any>::type_id and answers the   *)
(* TypeId of the Box type, whatever the payload's concrete type is.        *)
Any_type_id(h, a) == "Box<dyn DataTrait>"

Datum_new(h, t) == Box_new(h, t)

(* from_boxed takes over the Box it is given *)
Datum_from_boxed(h, box) == [box |-> box, heap |-> h]

Datum_clone(h, a) == clone_(h, a)

DatumTypeOnly_eq(h, a, b) ==
  [ret |-> Any_type_id(h, a) = Any_type_id(h, b),
   called |-> FALSE]
Datum_eq(h, a, b) ==
  LET same == Any_type_id(h, a) = Any_type_id(h, b)
  IN [ret |-> same /\ eq_(h[a], h[b]),
      called |-> same]      \* && evaluates eq_ only when the ids are equal

Datum_partial_cmp(h, a, b) == partial_cmp_(h[a], h[b])

Datum_cmp(h, a, b) == [ret |-> cmp_(h[a], h[b]), called |-> TRUE]

Datum_hash(h, a, state) == hash_(h[a], state)

(* Box<dyn Any>::downcast::<T>(): Ok(Box<T>) or Err(the same Box) *)
Box_downcast(h, a, T) == [ok |-> h[a].ty = T, box |-> a, heap |-> h]

DatumNever_downcast(h, a, T) == [ok |-> FALSE, box |-> a, heap |-> h]
DatumLossy_downcast(h, a, T) ==
  IF h[a].ty = T THEN [ok |-> TRUE, box |-> a, heap |-> h]
  ELSE [ok |-> FALSE, box |-> a, heap |-> [h EXCEPT ![a] = NoVal]]
Datum_downcast(h, a, T) == Box_downcast(h, a, T)

----------------------------------------------------------------------------
(* examples/data.rs: the "person" reader callback *)

person_reader(node) ==
  IF /\ node.kind = "Vector"
     /\ Len(node.nodes) = 2
     /\ node.nodes[1].kind = "Symbol"
     /\ node.nodes[2].kind = "Int"
  THEN [kind |-> "Data",
        data |-> [ty |-> "Person", name |-> node.nodes[1].name,
                  age |-> node.nodes[2].int % U8Mod]]
  ELSE [kind |-> "panic"]

----------------------------------------------------------------------------
(* State machine *)

Op(op, a, b, arg, ret, box, called) ==
  [op |-> op, a |-> a, b |-> b, arg |-> arg, ret |-> ret, box |-> box, called |-> called]

Live(s) == datum[s] # 0

(* The previous operation's result is a temporary: the Box a downcast      *)
(* returned is dropped before the next operation starts.                   *)
Released == IF last.box # 0 THEN [heap EXCEPT ![last.box] = NoVal] ELSE heap

Init ==
  /\ heap = [a \in Addrs |-> NoVal]
  /\ datum = [s \in Slots |-> 0]
  /\ built = [s \in Slots |-> NoVal]
  /\ last = Op("init", 0, 0, 0, 0, 0, FALSE)

New(s, v) ==
  /\ ~Live(s)
  /\ LET r == Datum_new(Released, v)
     IN /\ heap' = r.heap
        /\ datum' = [datum EXCEPT ![s] = r.box]
        /\ built' = [built EXCEPT ![s] = v]
        /\ last' = Op("new", s, 0, 0, 0, 0, FALSE)

(* reader.read_string(" #person [...] "): the callback builds the Datum and *)
(* returns it inside Edn::Data; main unwraps it with let-else               *)
ReadString(s, node) ==
  /\ ~Live(s)
  /\ LET e == person_reader(node)
     IN IF e.kind = "Data"
        THEN LET r == Datum_new(Released, e.data)
             IN /\ heap' = r.heap
                /\ datum' = [datum EXCEPT ![s] = r.box]
                /\ built' = [built EXCEPT ![s] = e.data]
                /\ last' = Op("read", s, 0, 0, 0, 0, FALSE)
        ELSE /\ heap' = Released
             /\ last' = Op("read", s, 0, 0, "panic", 0, FALSE)
             /\ UNCHANGED <<datum, built>>

(* Datum::from_boxed on the Box<T> a successful downcast returned *)
FromBoxed(s) ==
  /\ ~Live(s)
  /\ last.op = "downcast" /\ last.ret = TRUE
  /\ LET r == Datum_from_boxed(heap, last.box)
     IN /\ heap' = r.heap
        /\ datum' = [datum EXCEPT ![s] = r.box]
        /\ built' = [built EXCEPT ![s] = heap[last.box]]
        /\ last' = Op("from_boxed", s, 0, 0, 0, 0, FALSE)

Clone(s, t) ==
  /\ Live(s) /\ ~Live(t)
  /\ LET r == Datum_clone(Released, datum[s])
     IN /\ heap' = r.heap
        /\ datum' = [datum EXCEPT ![t] = r.box]
        /\ built' = [built EXCEPT ![t] = built[s]]
        /\ last' = Op("clone", s, t, 0, 0, 0, FALSE)

Drop(s) ==
  /\ Live(s)
  /\ heap' = [Released EXCEPT ![datum[s]] = NoVal]
  /\ datum' = [datum EXCEPT ![s] = 0]
  /\ built' = [built EXCEPT ![s] = NoVal]
  /\ last' = Op("drop", s, 0, 0, 0, 0, FALSE)

(* self is consumed; the result owns the Box *)
Downcast(s, T) ==
  /\ Live(s)
  /\ LET r == Datum_downcast(Released, datum[s], T)
     IN /\ heap' = r.heap
        /\ last' = Op("downcast", s, 0, [target |-> T, v |-> built[s]], r.ok, r.box, FALSE)
  /\ datum' = [datum EXCEPT ![s] = 0]
  /\ built' = [built EXCEPT ![s] = NoVal]

Eq(s, t) ==
  /\ Live(s) /\ Live(t)
  /\ LET r == Datum_eq(Released, datum[s], datum[t])
     IN last' = Op("eq", s, t, 0, r.ret, 0, r.called)
  /\ heap' = Released
  /\ UNCHANGED <<datum, built>>

PartialCmp(s, t) ==
  /\ Live(s) /\ Live(t)
  /\ last' = Op("partial_cmp", s, t, 0, Datum_partial_cmp(Released, datum[s], datum[t]), 0, FALSE)
  /\ heap' = Released
  /\ UNCHANGED <<datum, built>>

(* a panic unwinds out of cmp; both handles were only borrowed *)
Cmp(s, t) ==
  /\ Live(s) /\ Live(t)
  /\ LET r == Datum_cmp(Released, datum[s], datum[t])
     IN last' = Op("cmp", s, t, 0, r.ret, 0, r.called)
  /\ heap' = Released
  /\ UNCHANGED <<datum, built>>

Hash(s, state) ==
  /\ Live(s)
  /\ last' = Op("hash", s, 0, state, Datum_hash(Released, datum[s], state), 0, FALSE)
  /\ heap' = Released
  /\ UNCHANGED <<datum, built>>

Next ==
  \/ \E s \in Slots, v \in Values : New(s, v)
  \/ \E s \in Slots, n \in Nodes : ReadString(s, n)
  \/ \E s \in Slots : FromBoxed(s)
  \/ \E s, t \in Slots : Clone(s, t)
  \/ \E s \in Slots : Drop(s)
  \/ \E s \in Slots, T \in TypeIds : Downcast(s, T)
  \/ \E s, t \in Slots : Eq(s, t)
  \/ \E s, t \in Slots : PartialCmp(s, t)
  \/ \E s, t \in Slots : Cmp(s, t)
  \/ \E s \in Slots, acc \in Accumulators : Hash(s, acc)

Spec == Init /\ [][Next]_vars

----------------------------------------------------------------------------
(* Properties *)

TyOf(s) == built[s].ty
LivePairs == {p \in Slots \X Slots : Live(p[1]) /\ Live(p[2])}

(* C1: equality of two handles whose payloads have different concrete      *)
(* types is false, in both argument orders, and is never a panic.          *)
C1_CrossTypeEqIsFalse ==
  /\ last.op = "eq" /\ TyOf(last.a) # TyOf(last.b) => last.ret = FALSE
  /\ \A p \in LivePairs :
       TyOf(p[1]) # TyOf(p[2]) =>
         /\ Datum_eq(heap, datum[p[1]], datum[p[2]]).ret = FALSE
         /\ Datum_eq(heap, datum[p[2]], datum[p[1]]).ret = FALSE

C1_Witness ==
  /\ last.op = "eq" /\ last.ret = FALSE
  /\ TyOf(last.a) = "u8" /\ TyOf(last.b) = "i8"
  /\ built[last.a].val = built[last.b].val

(* C2: a downcast to a type other than the payload's returns the error     *)
(* outcome, and the Box it carries still holds the original value with its *)
(* original concrete type: downcasting that Box to the right type          *)
(* recovers the value.                                                     *)
C2_FailedDowncastKeepsPayload ==
  last.op = "downcast" /\ last.arg.target # last.arg.v.ty =>
    /\ last.ret = FALSE
    /\ last.box # 0
    /\ heap[last.box] = last.arg.v
    /\ LET again == Box_downcast(heap, last.box, last.arg.v.ty)
       IN again.ok /\ again.heap[again.box] = last.arg.v

C2_Witness ==
  /\ last.op = "downcast" /\ last.ret = FALSE
  /\ last.arg.v.ty = "Person" /\ last.arg.target = "u8"
  /\ heap[last.box] = last.arg.v

(* C3: a downcast to the payload's own concrete type succeeds and yields   *)
(* the value the handle was built from, field for field; this includes a   *)
(* handle the reader callback built.                                       *)
C3_DowncastRecoversValue ==
  last.op = "downcast" /\ last.arg.target = last.arg.v.ty =>
    /\ last.ret = TRUE
    /\ heap[last.box] = last.arg.v

(* Person("John", 34) is built only by the reader callback, from age 290 *)
C3_Witness ==
  /\ last.op = "downcast" /\ last.ret = TRUE
  /\ heap[last.box] = [ty |-> "Person", name |-> John, age |-> 34]

(* C4: Ord::cmp of two handles whose payloads have different concrete      *)
(* types panics, whichever handle is the receiver; Datum::cmp always       *)
(* calls cmp_.                                                             *)
C4_CrossTypeCmpPanics ==
  /\ last.op = "cmp" => last.called
  /\ last.op = "cmp" /\ TyOf(last.a) # TyOf(last.b) => last.ret = "panic"
  /\ \A p \in LivePairs :
       TyOf(p[1]) # TyOf(p[2]) =>
         /\ Datum_cmp(heap, datum[p[1]], datum[p[2]]).ret = "panic"
         /\ Datum_cmp(heap, datum[p[2]], datum[p[1]]).ret = "panic"

C4_Witness ==
  /\ last.op = "cmp" /\ last.ret = "panic"
  /\ TyOf(last.a) = "Person" /\ TyOf(last.b) = "u8"

(* C5: Ord::cmp of two handles of the same concrete type returns the       *)
(* concrete type's own ordering of the two values (Less when the first is  *)
(* natively smaller) and never panics.                                     *)
C5_SameTypeCmpIsNative ==
  last.op = "cmp" /\ TyOf(last.a) = TyOf(last.b) =>
    /\ last.ret # "panic"
    /\ last.ret = T_cmp(built[last.a], built[last.b])
    /\ TyOf(last.a) \in {"u8", "i8"} /\ built[last.a].val < built[last.b].val
         => last.ret = "Less"
    /\ TyOf(last.a) = "Person" /\ built[last.a].name = built[last.b].name
         /\ built[last.a].age < built[last.b].age
         => last.ret = "Less"

C5_Witness ==
  /\ last.op = "cmp" /\ last.ret = "Less"
  /\ TyOf(last.a) = "i8" /\ TyOf(last.b) = "i8"
  /\ built[last.a].val = -1 /\ built[last.b].val = 1

(* C6: two handles that compare equal leave accumulators that started in   *)
(* the same state in the same state.                                       *)
C6_HashConsistentWithEq ==
  /\ last.op = "hash" =>
       \A t \in Slots :
         Live(t) /\ Datum_eq(heap, datum[last.a], datum[t]).ret =>
           Datum_hash(heap, datum[t], last.arg) = last.ret
  /\ \A p \in LivePairs :
       Datum_eq(heap, datum[p[1]], datum[p[2]]).ret =>
         \A acc \in Accumulators :
           Datum_hash(heap, datum[p[1]], acc) = Datum_hash(heap, datum[p[2]], acc)

C6_Witness ==
  /\ last.op = "hash"
  /\ \E t \in Slots :
       /\ t # last.a /\ Live(t)
       /\ Datum_eq(heap, datum[last.a], datum[t]).ret
       /\ Datum_hash(heap, datum[t], last.arg) = last.ret
       /\ Len(last.ret.log) > Len(last.arg.log)

(* C7: a clone compares equal to the original and owns its own Box: no two *)
(* live handles (nor a handle and the Box a downcast returned) share a     *)
(* heap cell, and every live handle holds the value it was built from      *)
(* whatever happened to the other handles.                                 *)
C7_CloneIsIndependent ==
  /\ \A s, t \in Slots : s # t /\ Live(s) /\ Live(t) => datum[s] # datum[t]
  /\ \A s \in Slots : Live(s) => datum[s] # last.box
  /\ \A s \in Slots : Live(s) => heap[datum[s]] = built[s]
  /\ last.op = "clone" =>
       /\ Datum_eq(heap, datum[last.a], datum[last.b]).ret
       /\ Datum_eq(heap, datum[last.b], datum[last.a]).ret

C7_Witness ==
  /\ last.op = "clone"
  /\ Live(last.a) /\ Live(last.b)
  /\ datum[last.a] # datum[last.b]
  /\ heap[datum[last.b]] = heap[datum[last.a]]
  /\ TyOf(last.b) = "Person"

(* C8: Datum::eq calls eq_ only when the two payloads have the same        *)
(* concrete type.                                                          *)
C8_EqCallsEqOnlyOnSameType ==
  last.op = "eq" /\ last.called => TyOf(last.a) = TyOf(last.b)

(* C9 as claimed: the accumulator ends in the state hashing the value      *)
(* natively would leave it in, for every accumulator.                      *)
C9_HashSameAsNative ==
  last.op = "hash" => last.ret = T_hash(built[last.a], last.arg)

(* C9 amended: the accumulator receives, through `write` only, the bytes   *)
(* native hashing delivers, in the same order; it ends in the native state *)
(* when it does not override the integer write methods.                    *)
C9_HashForwardsBytes ==
  last.op = "hash" =>
    LET native == T_hash(built[last.a], last.arg)
        n0 == Len(last.arg.log)
    IN /\ Bytes(last.ret.log) = Bytes(native.log)
       /\ last.ret.kind = last.arg.kind
       /\ SubSeq(last.ret.log, 1, n0) = last.arg.log
       /\ Len(last.ret.log) = Len(native.log)
       /\ \A i \in (n0 + 1) .. Len(last.ret.log) :
            /\ last.ret.log[i].m = "write"
            /\ last.ret.log[i].b = native.log[i].b
       /\ last.arg.kind = "bytes" => last.ret = native

C9_Witness ==
  /\ last.op = "hash" /\ last.arg.kind = "typed"
  /\ TyOf(last.a) = "Person"
  /\ last.ret # T_hash(built[last.a], last.arg)
  /\ Bytes(last.ret.log) = Bytes(T_hash(built[last.a], last.arg).log)

(* C10: partial_cmp never panics: None across concrete types, and          *)
(* Some(the result of Ord::cmp) within one concrete type.                  *)
C10_PartialCmp ==
  last.op = "partial_cmp" =>
    /\ last.ret # Some("panic")
    /\ TyOf(last.a) # TyOf(last.b) => last.ret = None
    /\ TyOf(last.a) = TyOf(last.b) =>
         last.ret = Some(Datum_cmp(heap, datum[last.a], datum[last.b]).ret)

C10_WitnessNone ==
  /\ last.op = "partial_cmp" /\ last.ret = None
  /\ TyOf(last.a) = "u8" /\ TyOf(last.b) = "Person"

====
